---- MODULE Spec2Model ----
(***************************************************************************)
(* Backup/restore utility: scripts/backup_db.py, scripts/backup_workspace.py *)
(* scripts/restore_db.py and scripts/restore_workspace.py.                  *)
(*                                                                         *)
(* The state is the part of the filesystem the four scripts touch: the     *)
(* backup root `backups`, the live database file and the live workspace    *)
(* directory, together with the local clock that names the artifacts.      *)
(* File names are sequences of character codes, so that str.startswith,    *)
(* str.endswith, list.sort and strftime are computed as Python computes    *)
(* them.  A directory tree is the set of the names of its files (one level *)
(* of regular files).  Failures of the underlying device (disk full,       *)
(* permission denied) are outside the model; the failures modelled are the *)
(* ones the scripts' own logic and the shutil/os contracts produce.        *)
(* The clock never runs backwards; runs within the same second are         *)
(* modelled.  An artifact stamped later than the clock is modelled as an   *)
(* entry the backup root holds before the first run.                       *)
(***************************************************************************)
EXTENDS Integers, Sequences, FiniteSets, TLC

\* ---------------------------------------------------------------- bounds
MaxClock == 1        \* the clock takes the values 0..MaxClock (seconds)
MaxContent == 2      \* file contents are 1..MaxContent
MaxPrior == 1        \* entries the backup root holds before the first run
MaxRuns == 3         \* script runs in one behaviour

\* ------------------------------------------------------------- constants
EXIT_OK == 0
EXIT_FAIL == 1

\* ------------------------------------------------------------- strings
\* Character codes (ASCII) of the literals the scripts use.
DbPrefix == <<100, 98, 95, 98, 97, 99, 107, 117, 112, 95>>
DbSuffix == <<46, 115, 113, 108, 105, 116, 101, 51>>
WsPrefix == <<119, 111, 114, 107, 115, 112, 97, 99, 101, 95, 98, 97, 99, 107, 117, 112, 95>>
SrcBaseName == "workspace.db"

\* str.startswith
StartsWith(s, p) == Len(s) >= Len(p) /\ SubSeq(s, 1, Len(p)) = p

\* str.endswith
EndsWith(s, p) == Len(s) >= Len(p) /\ SubSeq(s, Len(s) - Len(p) + 1, Len(s)) = p

\* Python's str ordering: code point by code point, a proper prefix is less.
StrLess(a, b) ==
    \/ Len(a) < Len(b) /\ SubSeq(b, 1, Len(a)) = a
    \/ \E i \in 1..Len(a) :
          /\ i <= Len(b)
          /\ SubSeq(a, 1, i - 1) = SubSeq(b, 1, i - 1)
          /\ a[i] < b[i]

RECURSIVE Pow10(_)
Pow10(n) == IF n = 0 THEN 1 ELSE 10 * Pow10(n - 1)

\* a zero-padded decimal field of width w (%Y, %m, %d, %H, %M, %S)
Digits(n, w) == [i \in 1..w |-> 48 + ((n \div Pow10(w - i)) % 10)]

\* datetime.now(): the clock counts seconds from 2023-12-31 23:59:59 local time
EpochSecond == 86399
DateTimeNow(t) ==
    LET secs == EpochSecond + t
        day == secs \div 86400
        sod == secs % 86400
    IN [year |-> IF day = 0 THEN 2023 ELSE 2024,
        month |-> IF day = 0 THEN 12 ELSE 1,
        day |-> IF day = 0 THEN 31 ELSE day,
        hour |-> sod \div 3600,
        minute |-> (sod % 3600) \div 60,
        second |-> sod % 60]

\* strftime('%Y%m%d_%H%M%S')
strftime(dt) ==
    Digits(dt.year, 4) \o Digits(dt.month, 2) \o Digits(dt.day, 2) \o <<95>>
        \o Digits(dt.hour, 2) \o Digits(dt.minute, 2) \o Digits(dt.second, 2)

\* mutant: the artifact is named without the database extension
DbNameNoSuffix(t) == DbPrefix \o strftime(DateTimeNow(t))

\* DST of backup_db.py and of backup_workspace.py
DbName(t) == DbPrefix \o strftime(DateTimeNow(t)) \o DbSuffix
WsName(t) == WsPrefix \o strftime(DateTimeNow(t))

\* mutant: the extension is not tested
DbFilterPrefixOnly(f) == StartsWith(f, DbPrefix)

\* the list comprehensions of the restore scripts
DbFilter(f) == StartsWith(f, DbPrefix) /\ EndsWith(f, DbSuffix)
WsFilter(f) == StartsWith(f, WsPrefix)

\* mutant: backups.sort() without reverse=True
LatestAscending(backups) == CHOOSE f \in backups : \A g \in backups : g = f \/ StrLess(f, g)

\* backups.sort(reverse=True); backups[0]
Latest(backups) == CHOOSE f \in backups : \A g \in backups : g = f \/ StrLess(g, f)

\* ------------------------------------------------------------- filesystem
Contents == 1..MaxContent
WsFiles == {"stale.txt", "data.txt"}
File(b) == [kind |-> "file", bytes |-> b, tree |-> {}]
Dir(t) == [kind |-> "dir", bytes |-> 0, tree |-> t]
NoFile == [exists |-> FALSE, bytes |-> 0]
NoDir == [exists |-> FALSE, tree |-> {}]

\* directory trees: the files a directory holds, by name
LiveTrees == SUBSET WsFiles

Put(r, name, entry) == [n \in DOMAIN r \cup {name} |-> IF n = name THEN entry ELSE r[n]]

\* rootExists, root : the backup root and its entries, by name
\* db, ws           : the live database file and the live workspace directory
\* clock            : the local clock, in seconds
\* run              : the last step: the script that ran, its exit status, the
\*                    path it computed (DST of a backup, SRC of a restore) and
\*                    the result of its os.path.exists test
\* lastDb, lastWs   : what the most recent backup-db / backup-workspace run
\*                    that wrote an artifact copied (history variables)
\* nruns            : the number of script runs so far
VARIABLES rootExists, root, db, ws, clock, run, lastDb, lastWs, nruns
vars == <<rootExists, root, db, ws, clock, run, lastDb, lastWs, nruns>>

\* entries an operator may have left in the backup root before the first run:
\* db_backup_old.sqlite3, a directory under an artifact's name,
\* db_backup_<ts>.bak and workspace_backup_old.sqlite3
OldTag == <<111, 108, 100>>
BakSuffix == <<46, 98, 97, 107>>
PriorEntries ==
    { <<DbPrefix \o OldTag \o DbSuffix, File(1)>>,
      <<DbName(MaxClock), Dir({})>>,
      <<DbPrefix \o strftime(DateTimeNow(0)) \o BakSuffix, File(1)>>,
      <<WsPrefix \o OldTag \o DbSuffix, File(1)>> }
RootOf(E) == [n \in {e[1] : e \in E} |-> (CHOOSE e \in E : e[1] = n)[2]]
PriorRoots == {RootOf(E) : E \in {T \in SUBSET PriorEntries : Cardinality(T) <= MaxPrior}}

\* mutant: os.makedirs(DST_DIR) without exist_ok
makedirsNoExistOk(exists) == exists

\* os.makedirs(DST_DIR, exist_ok=True) does not raise for an existing directory
makedirsFails(exists) == FALSE

\* mutant: the existence test is dropped
AlwaysExists(p) == TRUE

\* os.path.exists(SRC), os.path.exists(DST)
os_path_exists(p) == p.exists

\* mutant: an existing destination is kept
copy2NoOverwrite(r, dst, bytes) == IF dst \in DOMAIN r THEN r ELSE Put(r, dst, File(bytes))

\* shutil.copy2(SRC, DST) into the backup root: a directory at DST receives
\* the file under the source's base name, anything else is (over)written.
copy2(r, dst, bytes) ==
    IF dst \in DOMAIN r /\ r[dst].kind = "dir"
    THEN Put(r, dst, Dir(r[dst].tree \cup {SrcBaseName}))
    ELSE Put(r, dst, File(bytes))

\* mutant: copytree(..., dirs_exist_ok=True)
copytreeExistOk(r, dst) == FALSE

\* shutil.copytree(SRC, DST) into the backup root: os.makedirs(dst) raises
\* FileExistsError when DST exists, before anything is copied.
copytreeFails(r, dst) == dst \in DOMAIN r
copytree(r, dst, tree) == Put(r, dst, Dir(tree))

\* mutant: the live workspace is not removed
rmtreeSkipped(w) == w

\* shutil.rmtree(DST)
rmtree(w) == NoDir

External == [op |-> "external", exit |-> EXIT_OK, path |-> <<>>, found |-> FALSE]
Ran(op, exit, path, found) == [op |-> op, exit |-> exit, path |-> path, found |-> found]
Scripts == {"backup_db", "backup_workspace", "restore_db", "restore_workspace"}

TypeOK ==
    /\ rootExists \in BOOLEAN
    /\ clock \in 0..MaxClock
    /\ db \in {NoFile} \cup {[exists |-> TRUE, bytes |-> b] : b \in Contents}
    /\ ws \in {NoDir} \cup {[exists |-> TRUE, tree |-> t] : t \in LiveTrees}
    /\ run.op \in Scripts \cup {"none", "external"}
    /\ run.exit \in {EXIT_OK, EXIT_FAIL}
    /\ nruns \in 0..MaxRuns
    /\ (~rootExists => DOMAIN root = {})

InitLive ==
    /\ db \in {NoFile} \cup {[exists |-> TRUE, bytes |-> b] : b \in Contents}
    /\ ws \in {NoDir} \cup {[exists |-> TRUE, tree |-> t] : t \in LiveTrees}
    /\ clock \in 0..MaxClock
    /\ run = [op |-> "none", exit |-> EXIT_OK, path |-> <<>>, found |-> FALSE]
    /\ lastDb = NoFile
    /\ lastWs = NoDir
    /\ nruns = 0

Init ==
    /\ rootExists \in BOOLEAN
    /\ root \in PriorRoots
    /\ (~rootExists => DOMAIN root = {})
    /\ InitLive

\* one more script run
Start == nruns < MaxRuns /\ nruns' = nruns + 1

\* scripts/backup_db.py
BackupDb ==
    LET DST == DbName(clock)
        found == os_path_exists(db)
    IN
    /\ Start
    /\ IF makedirsFails(rootExists)
       THEN /\ run' = Ran("backup_db", EXIT_FAIL, <<>>, FALSE)
            /\ UNCHANGED <<rootExists, root, lastDb>>
       ELSE /\ rootExists' = TRUE
            /\ run' = Ran("backup_db", EXIT_OK, DST, found)
            /\ IF found
               THEN /\ root' = copy2(root, DST, db.bytes)
                    /\ lastDb' = db
               ELSE UNCHANGED <<root, lastDb>>
    /\ UNCHANGED <<db, ws, clock, lastWs>>

\* scripts/backup_workspace.py
BackupWorkspace ==
    LET DST == WsName(clock)
        found == os_path_exists(ws)
    IN
    /\ Start
    /\ IF makedirsFails(rootExists)
       THEN /\ run' = Ran("backup_workspace", EXIT_FAIL, <<>>, FALSE)
            /\ UNCHANGED <<rootExists, root, lastWs>>
       ELSE /\ rootExists' = TRUE
            /\ IF found /\ copytreeFails(root, DST)
               THEN /\ run' = Ran("backup_workspace", EXIT_FAIL, DST, found)
                    /\ UNCHANGED <<root, lastWs>>
               ELSE /\ run' = Ran("backup_workspace", EXIT_OK, DST, found)
                    /\ IF found
                       THEN /\ root' = copytree(root, DST, ws.tree)
                            /\ lastWs' = ws
                       ELSE UNCHANGED <<root, lastWs>>
    /\ UNCHANGED <<db, ws, clock, lastDb>>

\* scripts/restore_db.py: os.listdir raises when the backup root is absent,
\* copy2 raises before writing when the selected entry is a directory.
RestoreDb ==
    LET backups == {f \in DOMAIN root : DbFilter(f)} IN
    /\ Start
    /\ IF ~rootExists \/ backups = {}
       THEN /\ run' = Ran("restore_db", EXIT_FAIL, <<>>, FALSE)
            /\ UNCHANGED db
       ELSE LET SRC == Latest(backups) IN
            IF root[SRC].kind = "file"
            THEN /\ db' = [exists |-> TRUE, bytes |-> root[SRC].bytes]
                 /\ run' = Ran("restore_db", EXIT_OK, SRC, FALSE)
            ELSE /\ run' = Ran("restore_db", EXIT_FAIL, SRC, FALSE)
                 /\ UNCHANGED db
    /\ UNCHANGED <<rootExists, root, ws, clock, lastDb, lastWs>>

\* mutant: the backup is copied over the live workspace without removing it
\* (copytree with dirs_exist_ok=True)
RestoreWorkspaceMerge ==
    LET backups == {f \in DOMAIN root : WsFilter(f)} IN
    /\ Start
    /\ IF ~rootExists \/ backups = {}
       THEN /\ run' = Ran("restore_workspace", EXIT_FAIL, <<>>, FALSE)
            /\ UNCHANGED ws
       ELSE LET SRC == Latest(backups)
                found == os_path_exists(ws)
            IN IF root[SRC].kind # "dir"
               THEN /\ ws' = ws
                    /\ run' = Ran("restore_workspace", EXIT_FAIL, SRC, found)
               ELSE /\ ws' = [exists |-> TRUE, tree |-> root[SRC].tree \cup ws.tree]
                    /\ run' = Ran("restore_workspace", EXIT_OK, SRC, found)
    /\ UNCHANGED <<rootExists, root, db, clock, lastDb, lastWs>>

\* scripts/restore_workspace.py: the live workspace is removed first; copytree
\* raises before creating DST when the selected entry is not a directory.
RestoreWorkspace ==
    LET backups == {f \in DOMAIN root : WsFilter(f)} IN
    /\ Start
    /\ IF ~rootExists \/ backups = {}
       THEN /\ run' = Ran("restore_workspace", EXIT_FAIL, <<>>, FALSE)
            /\ UNCHANGED ws
       ELSE LET SRC == Latest(backups)
                found == os_path_exists(ws)
                removed == IF found THEN rmtree(ws) ELSE ws
            IN IF removed.exists \/ root[SRC].kind # "dir"
               THEN /\ ws' = removed
                    /\ run' = Ran("restore_workspace", EXIT_FAIL, SRC, found)
               ELSE /\ ws' = [exists |-> TRUE, tree |-> root[SRC].tree]
                    /\ run' = Ran("restore_workspace", EXIT_OK, SRC, found)
    /\ UNCHANGED <<rootExists, root, db, clock, lastDb, lastWs>>

\* the application writes or removes the live database
ModifyDb ==
    /\ db' \in ({NoFile} \cup {[exists |-> TRUE, bytes |-> b] : b \in Contents}) \ {db}
    /\ run' = External
    /\ UNCHANGED <<rootExists, root, ws, clock, lastDb, lastWs, nruns>>

\* the application writes or removes the live workspace
ModifyWs ==
    /\ ws' \in ({NoDir} \cup {[exists |-> TRUE, tree |-> t] : t \in LiveTrees}) \ {ws}
    /\ run' = External
    /\ UNCHANGED <<rootExists, root, db, clock, lastDb, lastWs, nruns>>

\* the local clock moves forward, by any number of seconds
AdvanceClock ==
    /\ clock' \in (clock + 1)..MaxClock
    /\ run' = External
    /\ UNCHANGED <<rootExists, root, db, ws, lastDb, lastWs, nruns>>

Next ==
    \/ BackupDb
    \/ BackupWorkspace
    \/ RestoreDb
    \/ RestoreWorkspace
    \/ ModifyDb
    \/ ModifyWs
    \/ AdvanceClock

\* any of the prior backup roots
Spec == Init /\ [][Next]_vars

\* from an empty (or absent) backup root
InitEmpty ==
    /\ rootExists \in BOOLEAN
    /\ root = RootOf({})
    /\ InitLive

SpecEmpty == InitEmpty /\ [][Next]_vars

\* ------------------------------------------------------------ properties
MatchesDb(f) == StartsWith(f, DbPrefix) /\ EndsWith(f, DbSuffix)
MatchesWs(f) == StartsWith(f, WsPrefix)
Greatest(f, S) == f \in S /\ \A g \in S : g = f \/ StrLess(g, f)
DbMatching == {f \in DOMAIN root : MatchesDb(f)}
WsMatching == {f \in DOMAIN root : MatchesWs(f)}

\* C1 as stated: whatever the backup root held before, a restore-db run that
\* directly follows a backup-db run which found the live database succeeds
\* and leaves the live database with the content it had at the backup.
C1_RoundTripAnyRoot ==
    [][(run.op = "backup_db" /\ run.found /\ run'.op = "restore_db")
        => (run'.exit = EXIT_OK /\ db' = lastDb)]_vars

\* C1 amended: the round trip holds when, after the backup-db run, the
\* artifact it wrote is a regular file and no entry matching the database
\* filter has a greater name.
C1_RoundTrip ==
    [][(/\ run.op = "backup_db" /\ run.found
        /\ root[run.path].kind = "file"
        /\ \A f \in DbMatching : f = run.path \/ StrLess(f, run.path)
        /\ run'.op = "restore_db")
        => (run'.exit = EXIT_OK /\ db' = lastDb /\ lastDb.exists)]_vars

C1_Witness ==
    /\ run.op = "restore_db" /\ run.exit = EXIT_OK
    /\ lastDb.exists /\ db = lastDb
    /\ run.path = DbName(clock)
    /\ Cardinality(DbMatching) >= 2 /\ Cardinality(DOMAIN root) >= 3

\* C2: a restore run that finds matching entries selects the greatest name
\* among the entries matching its own filter, never an entry of the other
\* mode's prefix.
C2_LatestSelection ==
    /\ (run.op = "restore_db" /\ DbMatching # {})
          => (Greatest(run.path, DbMatching) /\ ~StartsWith(run.path, WsPrefix))
    /\ (run.op = "restore_workspace" /\ WsMatching # {})
          => (Greatest(run.path, WsMatching) /\ ~StartsWith(run.path, DbPrefix))
    /\ (run.op = "restore_db" /\ run.exit = EXIT_OK)
          => db = [exists |-> TRUE, bytes |-> root[run.path].bytes]

C2_Witness ==
    /\ run.op = "restore_db" /\ run.exit = EXIT_OK
    /\ Cardinality(DbMatching) >= 2
    /\ WsMatching # {}
    /\ \E f \in DbMatching : root[f].bytes # root[run.path].bytes

\* C3: a restore run that finds no entry matching its filter (the backup root
\* absent, empty or holding other entries only) exits non-zero and leaves the
\* live database and the live workspace as they were.
C3_NoBackupFails ==
    [][(\/ run'.op = "restore_db" /\ (~rootExists \/ DbMatching = {})
        \/ run'.op = "restore_workspace" /\ (~rootExists \/ WsMatching = {}))
        => (run'.exit # EXIT_OK /\ db' = db /\ ws' = ws)]_vars

C3_Witness ==
    /\ run.op = "restore_db" /\ run.exit # EXIT_OK
    /\ db.exists /\ ws.exists
    /\ rootExists /\ DOMAIN root # {} /\ DbMatching = {}

\* C4: a backup run whose source does not exist changes no entry of the
\* backup root (it may create the root, empty) and exits 0.
C4_NoOpSafety ==
    [][(\/ run'.op = "backup_db" /\ ~db.exists
        \/ run'.op = "backup_workspace" /\ ~ws.exists)
        => (root' = root /\ rootExists' /\ run'.exit = EXIT_OK)]_vars

C4_Witness ==
    /\ run.op = "backup_db" /\ ~run.found /\ run.exit = EXIT_OK
    /\ ~db.exists /\ DOMAIN root # {}

\* C5: an artifact (a db_backup_<ts>.sqlite3 file or a workspace_backup_<ts>
\* directory) that exists in the backup root is neither changed nor removed
\* by any later step.
IsArtifact(f) ==
    \E t \in 0..MaxClock :
        \/ f = DbName(t) /\ root[f].kind = "file"
        \/ f = WsName(t) /\ root[f].kind = "dir"
C5_ArtifactImmutable ==
    [][\A f \in DOMAIN root :
          IsArtifact(f) => (f \in DOMAIN root' /\ root'[f] = root[f])]_vars

\* C6: a backup-workspace run with an existing live workspace at a second for
\* which the backup root already holds workspace_backup_<ts> exits non-zero
\* and leaves the backup root, that entry included, as it was.
C6_Collision ==
    [][(run'.op = "backup_workspace" /\ ws.exists /\ WsName(clock) \in DOMAIN root)
        => (run'.exit # EXIT_OK /\ root' = root /\ lastWs' = lastWs)]_vars

C6_Witness ==
    /\ run.op = "backup_workspace" /\ run.exit # EXIT_OK
    /\ nruns = 2 /\ DOMAIN root = {WsName(clock)}
    /\ lastWs.exists /\ root[WsName(clock)] = Dir(lastWs.tree)
    /\ ws.exists /\ ws # lastWs

\* C7: after a successful restore-workspace the live workspace holds exactly
\* the files of the selected backup directory; a file it held before and the
\* backup does not hold is gone.
C7_FullReplacement ==
    [][(run'.op = "restore_workspace" /\ run'.exit = EXIT_OK)
        => (/\ root[run'.path].kind = "dir"
            /\ ws' = [exists |-> TRUE, tree |-> root[run'.path].tree]
            /\ \A p \in ws.tree : p \notin root[run'.path].tree => p \notin ws'.tree)]_vars

C7_Witness ==
    /\ run.op = "restore_workspace" /\ run.exit = EXIT_OK /\ run.found
    /\ ws.exists /\ ws.tree = root[run.path].tree
    /\ "stale.txt" \notin ws.tree
    /\ ws.tree # {}

\* C8 as stated: every backup run exits 0.
C8_BackupExitsZero ==
    run.op \in {"backup_db", "backup_workspace"} => run.exit = EXIT_OK

\* C8 amended: every backup-db run exits 0, and a backup-workspace run exits 0
\* except when the live workspace exists and the backup root already holds an
\* entry named workspace_backup_<ts> for the current second.
C8_BackupExit ==
    [][/\ run'.op = "backup_db" => run'.exit = EXIT_OK
       /\ run'.op = "backup_workspace"
             => (run'.exit = EXIT_OK <=> ~(ws.exists /\ WsName(clock) \in DOMAIN root))]_vars

C8_Witness ==
    /\ run.op = "backup_workspace" /\ run.exit = EXIT_OK /\ run.found
    /\ nruns >= 2 /\ Cardinality(WsMatching) >= 2 /\ DbMatching # {}

\* C9: from an empty backup root and under a clock that never decreases, a
\* successful restore-db leaves the live database with the content of the
\* most recent backup-db run that found it, and a successful
\* restore-workspace leaves the live workspace with the tree the most recent
\* successful backup-workspace run captured.
C9_LatestIsMostRecent ==
    /\ (run.op = "restore_db" /\ run.exit = EXIT_OK) => (lastDb.exists /\ db = lastDb)
    /\ (run.op = "restore_workspace" /\ run.exit = EXIT_OK) => (lastWs.exists /\ ws = lastWs)

C9_Witness ==
    /\ run.op = "restore_db" /\ run.exit = EXIT_OK /\ db = lastDb
    /\ \E f \in DbMatching : f # run.path /\ root[f].bytes # root[run.path].bytes

\* C10: a restore-workspace run that selected an entry and fails (the entry
\* is not a directory) exits non-zero and leaves the live workspace absent,
\* whatever it held, and the backup root as it was.
C10_NoAtomicity ==
    [][(run'.op = "restore_workspace" /\ rootExists /\ WsMatching # {}
          /\ root[run'.path].kind # "dir")
        => (/\ run'.exit # EXIT_OK
            /\ ~ws'.exists
            /\ root' = root /\ rootExists' = rootExists)]_vars

C10_Witness ==
    /\ run.op = "restore_workspace" /\ run.exit # EXIT_OK
    /\ run.found /\ run.path # <<>> /\ ~ws.exists

====
